---- MODULE Spec2Model ----
(***************************************************************************)
(* Task tracker (tracker_app): the task workflow handlers of               *)
(* tasks/router.py over the data-access layer of tasks/TaskDao.py and the  *)
(* tables of models.py.  Each request handler is one action.  The acting   *)
(* user (cur_user) is a parameter of the handlers; the tables of users,    *)
(* tasks and task history are the state.  A Python exception that leaves a *)
(* handler is recorded under the exception's name, an HTTPException under  *)
(* the name of its status.                                                 *)
(***************************************************************************)
EXTENDS Integers, Sequences, FiniteSets, TLC

(***************************************************************************)
(* Bounds of the model.                                                    *)
(***************************************************************************)
MaxId == 2          \* values handed out by the tasks.id sequence
MaxClock == 6       \* committed writes to the tasks table: now() stays <= MaxClock

(***************************************************************************)
(* Enumerations of models.py.                                              *)
(***************************************************************************)
NULL == -1          \* SQL NULL / Python None in an integer column

NoRole == "none"    \* users.role is nullable: a registered user has no role

UserRole == {"manager", "team_lead", "developer", "test_engineer"}

\* [r.value for r in TaskStatus], in declaration order
statuses == <<"to_do", "in_progress", "code_review", "dev_test", "testing", "done", "wontfix">>

TaskStatus == {statuses[i] : i \in 1..Len(statuses)}

TaskType == {"task", "bug"}

TaskChangeType == {"create", "update"}

(***************************************************************************)
(* The users table.  No handler of the tasks router writes it.             *)
(***************************************************************************)
SeedUsers == <<[role |-> "manager"], [role |-> "team_lead"], [role |-> "developer"],
               [role |-> "test_engineer"], [role |-> NoRole]>>

\* the object UserDao.get_by_id returns when no row matches
None == [id |-> NULL, role |-> NoRole]

\* BaseDao.get_by_id with model = User: the row with that id, or None
UserDao_get_by_id(utable, o_id) ==
    IF o_id \in DOMAIN utable THEN [id |-> o_id, role |-> utable[o_id].role] ELSE None

(***************************************************************************)
(* TaskDao.get_next_status: the index of the task's status in the list of  *)
(* statuses (0 when none matches), then the element after it.  Indexing    *)
(* past the end of the list raises IndexError.                             *)
(***************************************************************************)
get_next_status_skip(task_status) ==
    LET found == {i \in 1..Len(statuses) : statuses[i] = task_status}
        status_index == IF found = {} THEN 1 ELSE CHOOSE i \in found : \A j \in found : j <= i
    IN  IF status_index + 2 > Len(statuses) THEN "IndexError" ELSE statuses[status_index + 2]

get_next_status(task_status) ==
    LET found == {i \in 1..Len(statuses) : statuses[i] = task_status}
        status_index == IF found = {} THEN 1 ELSE CHOOSE i \in found : \A j \in found : j <= i
    IN  IF status_index + 1 > Len(statuses) THEN "IndexError" ELSE statuses[status_index + 1]

(***************************************************************************)
(* TaskDao.is_valid_assignee(task_status, assignee)                        *)
(***************************************************************************)
is_valid_assignee_any_role(task_status, assignee) ==
    IF assignee = None /\ task_status # "in_progress" THEN TRUE
    ELSE assignee # None

is_valid_assignee(task_status, assignee) ==
    IF assignee = None /\ task_status # "in_progress" THEN TRUE
    ELSE IF assignee # None
         THEN IF assignee.role = "team_lead" THEN TRUE
              ELSE IF assignee.role = "test_engineer"
                      /\ task_status \notin {"in_progress", "code_review", "dev_test"} THEN TRUE
              ELSE IF assignee.role = "developer" /\ task_status # "testing" THEN TRUE
              ELSE FALSE
         ELSE FALSE

(***************************************************************************)
(* TaskDao.is_valid_status.  The static method declares one parameter      *)
(* (task); a call with any other number of positional arguments raises     *)
(* TypeError before the body runs.  In the body, the name `status` is the  *)
(* fastapi module imported at the top of TaskDao.py, so the membership     *)
(* test of the first line is false; the loop looks for task.status among   *)
(* all statuses but the last.                                              *)
(***************************************************************************)
is_valid_status_params == 1

is_valid_status_body(task_status) ==
    LET found == {i \in 1..(Len(statuses) - 1) : statuses[i] = task_status}
        \* 0-based index as in the code; 0 when the loop finds nothing
        status_index == IF found = {} THEN 0 ELSE (CHOOSE i \in found : \A j \in found : i <= j) - 1
    IN  status_index < Len(statuses) - 2

is_valid_status(args) ==
    IF Len(args) # is_valid_status_params THEN "TypeError"
    ELSE IF is_valid_status_body(args[1]) THEN "True" ELSE "False"

(***************************************************************************)
(* State.                                                                  *)
(*   users        the users table: id -> row                               *)
(*   tasks        the tasks table: id -> row                               *)
(*   history      the task_history table, in insertion (timestamp) order   *)
(*   task_id_seq  the next value of the tasks.id sequence                  *)
(*   clock        the database's now(), one tick per committed write       *)
(*   last         the request handled last and its outcome                 *)
(*   fn           arguments and results of the policy functions when they  *)
(*                are applied on their own (SpecFn)                        *)
(*   conc         the create requests in flight when handlers interleave   *)
(*                at their awaits (SpecConc): where each one is, and what  *)
(*                it wrote and looked up so far                            *)
(***************************************************************************)
VARIABLES users, tasks, history, task_id_seq, clock, last, fn, conc

vars == <<users, tasks, history, task_id_seq, clock, last, fn, conc>>

db == <<users, tasks, history, task_id_seq, clock>>

(***************************************************************************)
(* Requests.  schemas.py: STaskCreate, STaskCreateChild, STaskUpdate.      *)
(* The assignee ids requests carry: no assignee (None in a create request, *)
(* 0 elsewhere), the manager (1), the team lead (2), the developer (3),    *)
(* and an id that matches no user.                                         *)
(***************************************************************************)
TaskIds == 1..MaxId

\* the task numbers requests carry
Numbers == {1, 2}

NoSuchUser == Len(SeedUsers) + 1

\* cur_user of a delete request: the manager and the developer
Actors == {1, 3}

\* cur_user of create and update requests
Authors == {3}

STaskCreate == [number : Numbers, type : {"task"}, priority : {"low"},
                title : {"t"}, description : {"d"}, assignee_id : {NULL, 1, NoSuchUser}]

STaskCreateChild == [number : Numbers, type : {"task"}, priority : {"low"},
                     title : {"t"}, description : {"d"}, assignee_id : {NULL, 1, NoSuchUser},
                     parent_id : TaskIds]

\* update requests: ones that rewrite the fields, and the ones that repeat
\* the fields a task has right after its creation without an assignee
STaskUpdate ==
    [number : {1}, type : {"bug"}, status : TaskStatus, priority : {"low"},
     title : {"u"}, description : {"d"}, assignee_id : {0, 3}]
    \cup [number : Numbers, type : {"task"}, status : {"to_do"}, priority : {"low"},
          title : {"t"}, description : {"d"}, assignee_id : {0}]

\* assignee_id of a next_status request
NextStatusAssignees == {0, 2, 3, NoSuchUser}

(***************************************************************************)
(* Constraints of the tables (models.py): tasks.number is unique,          *)
(* assignee_id references users.id, parent_id references tasks.id.  A      *)
(* statement that breaks one raises IntegrityError and commits nothing.    *)
(***************************************************************************)
RowAdmitted(utable, ttable, id, row) ==
    /\ \A o \in DOMAIN ttable \ {id} : ttable[o].number # row.number
    /\ row.assignee_id = NULL \/ row.assignee_id \in DOMAIN utable
    /\ row.parent_id = NULL \/ row.parent_id \in DOMAIN ttable

\* TaskDao.get_by_id: the row's id, or None
TaskDao_get_by_id(ttable, t_id) == IF t_id \in DOMAIN ttable THEN t_id ELSE NULL

is_valid_parent_unchecked(ttable, parent_id) == TRUE

\* TaskDao.is_valid_parent
is_valid_parent(ttable, parent_id) == TaskDao_get_by_id(ttable, parent_id) # NULL

(***************************************************************************)
(* TaskDao.get_last_updated_task: first row of the tasks ordered by        *)
(* last_updated_at descending; any of them when several share the latest   *)
(* timestamp, none when the table is empty.                                *)
(***************************************************************************)
get_last_updated_task_oldest(ttable) ==
    {id \in DOMAIN ttable :
        \A o \in DOMAIN ttable : ttable[id].last_updated_at <= ttable[o].last_updated_at}

get_last_updated_task(ttable) ==
    {id \in DOMAIN ttable :
        \A o \in DOMAIN ttable : ttable[o].last_updated_at <= ttable[id].last_updated_at}

(***************************************************************************)
(* TaskDao.save_history: the row it adds for the task task_created.        *)
(* data is the request's dict; a create request has no status key          *)
(* ("absent") until save_history sets it.                                  *)
(***************************************************************************)
save_history_as_given(task_created, data, cur_user, action) ==
    [task_id |-> task_created, change_type |-> action, user_id |-> cur_user,
     change_data |-> data]

save_history(task_created, data, cur_user, action) ==
    [task_id |-> task_created, change_type |-> action, user_id |-> cur_user,
     change_data |-> IF action = "create" THEN [data EXCEPT !.status = "to_do"] ELSE data]

(***************************************************************************)
(* TaskDao.save_history, session.add(history_item) and commit: the         *)
(* task_history table with the new row, which gets the next id.            *)
(***************************************************************************)
session_add_same_id(htable, history_item) ==
    IF htable = <<>> THEN <<history_item>>
    ELSE [htable EXCEPT ![Len(htable)] = history_item]

session_add(htable, history_item) == Append(htable, history_item)

\* task.dict() of a create request (create_child_task pops parent_id)
create_dict(task) ==
    [number |-> task.number, type |-> task.type, priority |-> task.priority,
     title |-> task.title, description |-> task.description,
     assignee_id |-> task.assignee_id, status |-> "absent"]

\* task.dict() of an update request
update_dict(task) ==
    [number |-> task.number, type |-> task.type, priority |-> task.priority,
     title |-> task.title, description |-> task.description,
     assignee_id |-> task.assignee_id, status |-> task.status]

(***************************************************************************)
(* TaskDao.create_task, TaskDao.create_child_task: the inserted row.       *)
(***************************************************************************)
create_task_in_progress(task, cur_user, now) ==
    [number |-> task.number, type |-> task.type, priority |-> task.priority,
     status |-> "in_progress", title |-> task.title, description |-> task.description,
     creator_id |-> cur_user,
     assignee_id |-> IF task.assignee_id # 0 THEN task.assignee_id ELSE NULL,
     parent_id |-> NULL, created_at |-> now, last_updated_at |-> now]

create_task(task, cur_user, now) ==
    [number |-> task.number, type |-> task.type, priority |-> task.priority,
     status |-> "to_do", title |-> task.title, description |-> task.description,
     creator_id |-> cur_user,
     assignee_id |-> IF task.assignee_id # 0 THEN task.assignee_id ELSE NULL,
     parent_id |-> NULL, created_at |-> now, last_updated_at |-> now]

create_child_task(task, cur_user, now) ==
    [number |-> task.number, type |-> task.type, priority |-> task.priority,
     status |-> "to_do", title |-> task.title, description |-> task.description,
     creator_id |-> cur_user,
     assignee_id |-> IF task.assignee_id # 0 THEN task.assignee_id ELSE NULL,
     parent_id |-> task.parent_id, created_at |-> now, last_updated_at |-> now]

\* TaskDao.update_task: the row after UPDATE ... WHERE id = t_id
update_task(row, task, now) ==
    [row EXCEPT !.number = task.number, !.type = task.type, !.priority = task.priority,
                !.status = task.status, !.title = task.title,
                !.description = task.description,
                !.assignee_id = IF task.assignee_id = 0 THEN NULL ELSE task.assignee_id,
                !.last_updated_at = now]

update_status_assignee_only(row, t_status, assignee_id, now) ==
    [row EXCEPT !.assignee_id = IF assignee_id # 0 THEN assignee_id ELSE NULL,
                !.last_updated_at = now]

update_status_keeping_assignee(row, t_status, assignee_id, now) ==
    [row EXCEPT !.status = t_status,
                !.assignee_id = IF assignee_id # 0 THEN assignee_id ELSE row.assignee_id,
                !.last_updated_at = now]

\* TaskDao.update_status: the row after UPDATE ... WHERE id = t_id
update_status(row, t_status, assignee_id, now) ==
    [row EXCEPT !.status = t_status,
                !.assignee_id = IF assignee_id # 0 THEN assignee_id ELSE NULL,
                !.last_updated_at = now]

\* the record of a handled request: cur is the status the task had before it
Request(op, result, t_id, cur, status, assignee_id, parent_id, actor) ==
    [op |-> op, result |-> result, t_id |-> t_id, cur |-> cur, status |-> status,
     assignee_id |-> assignee_id, parent_id |-> parent_id, actor |-> actor]

StatusOf(ttable, t_id) == IF t_id \in DOMAIN ttable THEN ttable[t_id].status ELSE "none"

(***************************************************************************)
(* Initial states.  Init: the tables as created, with the users in place.  *)
(* InitSeeded: the service attached to a database that already holds one   *)
(* task row, in any status, assigned to the team lead.                     *)
(***************************************************************************)
NoRequest == Request("none", "none", NULL, "none", "none", NULL, NULL, NULL)

FnIdle == [status |-> "none", requested |-> "none", assignee |-> None,
           next |-> "none", valid_assignee |-> "none", valid_status |-> "none"]

\* the requests that run concurrently in SpecConc
Procs == {1, 2}

\* no request in flight
ConcIdle ==
    [p \in Procs |-> [pc |-> "idle", data |-> <<>>, cur_user |-> NULL,
                      wrote |-> NULL, task_created |-> NULL, entry |-> 0]]

Init ==
    /\ users = SeedUsers
    /\ tasks = <<>>
    /\ history = <<>>
    /\ task_id_seq = 1
    /\ clock = 1
    /\ last = NoRequest
    /\ fn = FnIdle
    /\ conc = ConcIdle

InitSeeded ==
    /\ users = SeedUsers
    /\ \E s \in TaskStatus :
          tasks = <<[number |-> 1, type |-> "task", priority |-> "low", status |-> s,
                     title |-> "t", description |-> "d", creator_id |-> 1,
                     assignee_id |-> 2, parent_id |-> NULL,
                     created_at |-> 1, last_updated_at |-> 2]>>
    /\ history = <<>>
    /\ task_id_seq = 2
    /\ clock = 3
    /\ last = NoRequest
    /\ fn = FnIdle
    /\ conc = ConcIdle

(***************************************************************************)
(* POST /tasks/create_task                                                 *)
(***************************************************************************)
CreateTask(task, cur_user) ==
    LET assignee == UserDao_get_by_id(users, task.assignee_id)
        id == task_id_seq
        row == create_task(task, cur_user, clock)
        reply(result, t_id) ==
            Request("create", result, t_id, "none", "none", task.assignee_id, NULL, cur_user)
    IN  IF ~is_valid_assignee("to_do", assignee)
       THEN /\ last' = reply("bad_request", NULL)
            /\ UNCHANGED <<db, fn, conc>>
       ELSE IF ~RowAdmitted(users, tasks, id, row)
       THEN /\ last' = reply("IntegrityError", NULL)
            /\ UNCHANGED <<db, fn, conc>>
       ELSE /\ task_id_seq <= MaxId
            /\ clock <= MaxClock
            /\ tasks' = (id :> row) @@ tasks
            /\ task_id_seq' = id + 1
            /\ clock' = clock + 1
            /\ \E task_created \in get_last_updated_task(tasks') :
                  history' = session_add(history,
                                         save_history(task_created, create_dict(task),
                                                      cur_user, "create"))
            /\ last' = reply("ok", id)
            /\ UNCHANGED <<users, fn, conc>>

(***************************************************************************)
(* POST /tasks/create_child_task/{id}                                      *)
(***************************************************************************)
CreateChildTask(task, cur_user) ==
    LET assignee == UserDao_get_by_id(users, task.assignee_id)
        id == task_id_seq
        row == create_child_task(task, cur_user, clock)
        reply(result, t_id) ==
            Request("create_child", result, t_id, "none", "none", task.assignee_id,
                    task.parent_id, cur_user)
    IN  IF ~is_valid_assignee("to_do", assignee) \/ ~is_valid_parent(tasks, task.parent_id)
       THEN /\ last' = reply("bad_request", NULL)
            /\ UNCHANGED <<db, fn, conc>>
       ELSE IF ~RowAdmitted(users, tasks, id, row)
       THEN /\ last' = reply("IntegrityError", NULL)
            /\ UNCHANGED <<db, fn, conc>>
       ELSE /\ task_id_seq <= MaxId
            /\ clock <= MaxClock
            /\ tasks' = (id :> row) @@ tasks
            /\ task_id_seq' = id + 1
            /\ clock' = clock + 1
            /\ \E task_created \in get_last_updated_task(tasks') :
                  history' = session_add(history,
                                         save_history(task_created, create_dict(task),
                                                      cur_user, "create"))
            /\ last' = reply("ok", id)
            /\ UNCHANGED <<users, fn, conc>>

(***************************************************************************)
(* PUT /tasks/update_task/{t_id}: what the handler decides before it       *)
(* writes.  get_next_status(cur_task) runs first; is_valid_status is       *)
(* called with three arguments.                                            *)
(***************************************************************************)
update_task_unchecked(utable, cur_status, task) == "ok"

update_task_checks(utable, cur_status, task) ==
    LET t_next_status == get_next_status(cur_status)
        assignee == UserDao_get_by_id(utable, task.assignee_id)
    IN  IF t_next_status = "IndexError" THEN "IndexError"
        ELSE IF task.status \notin TaskStatus THEN "bad_request"
        ELSE LET valid_status == is_valid_status(<<cur_status, task.status, t_next_status>>)
             IN  IF valid_status = "TypeError" THEN "TypeError"
                 ELSE IF valid_status = "False" \/ ~is_valid_assignee(task.status, assignee)
                      THEN "bad_request"
                 ELSE "ok"

UpdateTask(task, t_id, cur_user) ==
    LET cur_task == TaskDao_get_by_id(tasks, t_id)
        reply(result) ==
            Request("update", result, t_id, StatusOf(tasks, t_id), task.status,
                    task.assignee_id, NULL, cur_user)
    IN  IF cur_task = NULL
       THEN /\ last' = reply("AttributeError")
            /\ UNCHANGED <<db, fn, conc>>
       ELSE LET checks == update_task_checks(users, tasks[t_id].status, task)
                row == update_task(tasks[t_id], task, clock)
            IN  IF checks # "ok"
                THEN /\ last' = reply(checks)
                     /\ UNCHANGED <<db, fn, conc>>
                ELSE IF ~RowAdmitted(users, tasks, t_id, row)
                THEN /\ last' = reply("IntegrityError")
                     /\ UNCHANGED <<db, fn, conc>>
                ELSE /\ clock <= MaxClock
                     /\ tasks' = [tasks EXCEPT ![t_id] = row]
                     /\ clock' = clock + 1
                     /\ \E task_created \in get_last_updated_task(tasks') :
                           history' = session_add(history,
                                                  save_history(task_created, update_dict(task),
                                                               cur_user, "update"))
                     /\ last' = reply("ok")
                     /\ UNCHANGED <<users, task_id_seq, fn, conc>>

(***************************************************************************)
(* TaskDao.get_task_history: the entries of task id, in the order they     *)
(* were written.                                                           *)
(***************************************************************************)
get_task_history(htable, id) == SelectSeq(htable, LAMBDA h : h.task_id = id)

(***************************************************************************)
(* task_history.task_id and tasks.parent_id reference tasks.id without ON  *)
(* DELETE: the row t_id is referenced when a history row or a child row    *)
(* points to it, and the DELETE of a referenced row raises IntegrityError. *)
(***************************************************************************)
Referenced_by_history(ttable, htable, t_id) ==
    \E h \in 1..Len(htable) : htable[h].task_id = t_id

Referenced(ttable, htable, t_id) ==
    \/ \E h \in 1..Len(htable) : htable[h].task_id = t_id
    \/ \E o \in DOMAIN ttable : ttable[o].parent_id = t_id

\* delete_task of router.py: cur_user.role != UserRole.manager
delete_task_forbidden_to_none(role) == FALSE

delete_task_forbidden(role) == role # "manager"

(***************************************************************************)
(* DELETE /tasks/delete_task/{id}.  Deleting no row is no error.           *)
(***************************************************************************)
DeleteTask(t_id, cur_user) ==
    LET reply(result) ==
            Request("delete", result, t_id, StatusOf(tasks, t_id), "none", NULL, NULL, cur_user)
    IN  IF delete_task_forbidden(users[cur_user].role)
        THEN /\ last' = reply("forbidden")
             /\ UNCHANGED <<db, fn, conc>>
        ELSE IF t_id \in DOMAIN tasks /\ Referenced(tasks, history, t_id)
        THEN /\ last' = reply("IntegrityError")
             /\ UNCHANGED <<db, fn, conc>>
        ELSE /\ tasks' = [o \in DOMAIN tasks \ {t_id} |-> tasks[o]]
             /\ last' = reply("ok")
             /\ UNCHANGED <<users, history, task_id_seq, clock, fn, conc>>

(***************************************************************************)
(* PATCH /tasks/next_status/{id}: what the handler decides between reading *)
(* the task and writing it.                                                *)
(***************************************************************************)
next_status_no_guard(utable, t_next_status, assignee_id) ==
    IF t_next_status = "IndexError" THEN "IndexError"
    ELSE IF ~is_valid_assignee(t_next_status, UserDao_get_by_id(utable, assignee_id))
         THEN "bad_request"
    ELSE "ok"

next_status_checks(utable, t_next_status, assignee_id) ==
    IF t_next_status = "IndexError" THEN "IndexError"
    ELSE IF t_next_status = "wontfix" THEN "bad_request"
    ELSE IF ~is_valid_assignee(t_next_status, UserDao_get_by_id(utable, assignee_id))
         THEN "bad_request"
    ELSE "ok"

NextStatus(t_id, assignee_id) ==
    LET task == TaskDao_get_by_id(tasks, t_id)
        reply(result) ==
            Request("next_status", result, t_id, StatusOf(tasks, t_id), "none", assignee_id,
                    NULL, NULL)
    IN  IF task = NULL
       THEN /\ last' = reply("AttributeError")
            /\ UNCHANGED <<db, fn, conc>>
       ELSE LET t_next_status == get_next_status(tasks[t_id].status)
                checks == next_status_checks(users, t_next_status, assignee_id)
                row == update_status(tasks[t_id], t_next_status, assignee_id, clock)
            IN  IF checks # "ok"
                THEN /\ last' = reply(checks)
                     /\ UNCHANGED <<db, fn, conc>>
                ELSE IF ~RowAdmitted(users, tasks, t_id, row)
                THEN /\ last' = reply("IntegrityError")
                     /\ UNCHANGED <<db, fn, conc>>
                ELSE /\ clock <= MaxClock
                     /\ tasks' = [tasks EXCEPT ![t_id] = row]
                     /\ clock' = clock + 1
                     /\ last' = reply("ok")
                     /\ UNCHANGED <<users, history, task_id_seq, fn, conc>>

(***************************************************************************)
(* POST /users/change_role/{id}: the reply and the users table after it.   *)
(* A caller who is no manager is refused.  For a manager the handler calls *)
(* UserDao.get_by_id with the path's id, which is a str: the driver        *)
(* (asyncpg) refuses a str for the integer column and the request ends in  *)
(* DataError.  The call further down, UserDao.update_user_role(            *)
(* change_user), lacks an argument, so no path of the handler reaches the  *)
(* UPDATE.                                                                 *)
(***************************************************************************)
change_role_applied(utable, cur_role, id, role) ==
    IF cur_role # "manager" THEN [result |-> "forbidden", users |-> utable]
    ELSE IF id \notin DOMAIN utable THEN [result |-> "not_found", users |-> utable]
    ELSE IF role \notin UserRole THEN [result |-> "bad_request", users |-> utable]
    ELSE [result |-> "ok", users |-> [utable EXCEPT ![id].role = role]]

change_role(utable, cur_role, id, role) ==
    IF cur_role # "manager" THEN [result |-> "forbidden", users |-> utable]
    ELSE [result |-> "DataError", users |-> utable]

\* the user and the role change_role requests name
RoleChanges == [id : {3}, role : {"test_engineer"}]

\* the request is recorded with the user's id as assignee_id and the role as status
ChangeRole(id, role, cur_user) ==
    LET reply == change_role(users, users[cur_user].role, id, role)
    IN  /\ users' = reply.users
        /\ last' = Request("change_role", reply.result, NULL, "none", role, id, NULL, cur_user)
        /\ UNCHANGED <<tasks, history, task_id_seq, clock, fn, conc>>

Next ==
    \/ \E change \in RoleChanges, cur_user \in Actors :
          ChangeRole(change.id, change.role, cur_user)
    \/ \E task \in STaskCreate, cur_user \in Authors : CreateTask(task, cur_user)
    \/ \E task \in STaskCreateChild, cur_user \in Authors : CreateChildTask(task, cur_user)
    \/ \E task \in STaskUpdate, t_id \in TaskIds, cur_user \in Authors :
          UpdateTask(task, t_id, cur_user)
    \/ \E t_id \in TaskIds, cur_user \in Actors : DeleteTask(t_id, cur_user)
    \/ \E t_id \in TaskIds, assignee_id \in NextStatusAssignees : NextStatus(t_id, assignee_id)

Spec == Init /\ [][Next]_vars

SpecSeeded == InitSeeded /\ [][Next]_vars

(***************************************************************************)
(* The policy functions applied on their own: to every status, every       *)
(* requested status and every candidate assignee (none, or a user of any   *)
(* role or of no role).                                                    *)
(***************************************************************************)
Candidates == {None} \cup {UserDao_get_by_id(SeedUsers, i) : i \in DOMAIN SeedUsers}

InitFn ==
    /\ users = SeedUsers
    /\ tasks = <<>>
    /\ history = <<>>
    /\ task_id_seq = 1
    /\ clock = 1
    /\ last = NoRequest
    /\ conc = ConcIdle
    /\ \E s \in TaskStatus, r \in TaskStatus, a \in Candidates :
          fn = [FnIdle EXCEPT !.status = s, !.requested = r, !.assignee = a]

ApplyGetNextStatus ==
    /\ fn.next = "none"
    /\ fn' = [fn EXCEPT !.next = get_next_status(fn.status)]
    /\ UNCHANGED <<db, last, conc>>

ApplyIsValidAssignee ==
    /\ fn.valid_assignee = "none"
    /\ fn' = [fn EXCEPT !.valid_assignee =
                 IF is_valid_assignee(fn.status, fn.assignee) THEN "True" ELSE "False"]
    /\ UNCHANGED <<db, last, conc>>

\* the call as update_task of router.py makes it
ApplyIsValidStatus ==
    /\ fn.valid_status = "none"
    /\ fn' = [fn EXCEPT !.valid_status =
                 is_valid_status(<<fn.status, fn.requested, get_next_status(fn.status)>>)]
    /\ UNCHANGED <<db, last, conc>>

NextFn == ApplyGetNextStatus \/ ApplyIsValidAssignee \/ ApplyIsValidStatus

SpecFn == InitFn /\ [][NextFn]_vars

(***************************************************************************)
(* Concurrent create requests.  The handlers are coroutines: create_task   *)
(* of router.py gives way to other requests at each await, and between     *)
(* them TaskDao.create_task, TaskDao.get_last_updated_task and the insert  *)
(* of save_history each run in a session and transaction of their own.     *)
(* Each request in Procs takes the three steps in order; the steps of      *)
(* different requests interleave freely.                                   *)
(***************************************************************************)

\* create_task up to the commit of TaskDao.create_task
ConcCreateTask(p, task, cur_user) ==
    LET assignee == UserDao_get_by_id(users, task.assignee_id)
        id == task_id_seq
        row == create_task(task, cur_user, clock)
    IN  /\ conc[p].pc = "idle"
        /\ IF ~is_valid_assignee("to_do", assignee)
           THEN /\ conc' = [conc EXCEPT ![p].pc = "bad_request"]
                /\ UNCHANGED <<db, last, fn>>
           ELSE IF ~RowAdmitted(users, tasks, id, row)
           THEN /\ conc' = [conc EXCEPT ![p].pc = "IntegrityError"]
                /\ UNCHANGED <<db, last, fn>>
           ELSE /\ task_id_seq <= MaxId
                /\ clock <= MaxClock
                /\ tasks' = (id :> row) @@ tasks
                /\ task_id_seq' = id + 1
                /\ clock' = clock + 1
                /\ conc' = [conc EXCEPT ![p].pc = "written",
                                        ![p].data = create_dict(task),
                                        ![p].cur_user = cur_user,
                                        ![p].wrote = id]
                /\ UNCHANGED <<users, history, last, fn>>

\* save_history: task_created = await TaskDao.get_last_updated_task()
ConcGetLastUpdatedTask(p) ==
    /\ conc[p].pc = "written"
    /\ \E task_created \in get_last_updated_task(tasks) :
          conc' = [conc EXCEPT ![p].pc = "found", ![p].task_created = task_created]
    /\ UNCHANGED <<db, last, fn>>

\* save_history: the insert of the history row, and the handler's return
ConcSaveHistory(p) ==
    /\ conc[p].pc = "found"
    /\ history' = session_add(history,
                              save_history(conc[p].task_created, conc[p].data,
                                           conc[p].cur_user, "create"))
    /\ conc' = [conc EXCEPT ![p].pc = "done", ![p].entry = Len(history')]
    /\ UNCHANGED <<users, tasks, task_id_seq, clock, last, fn>>

NextConc ==
    \/ \E p \in Procs, task \in STaskCreate, cur_user \in Authors :
          ConcCreateTask(p, task, cur_user)
    \/ \E p \in Procs : ConcGetLastUpdatedTask(p)
    \/ \E p \in Procs : ConcSaveHistory(p)

SpecConc == Init /\ [][NextConc]_vars

(***************************************************************************)
(* Concurrent requests on one task.  next_status of router.py reads the    *)
(* task in one session (await TaskDao.get_by_id), decides on what it read, *)
(* and writes in another (await TaskDao.update_status); other requests run *)
(* between the two.  Each request in Procs takes the two steps in order.   *)
(* update_task fails right after its read (is_valid_status), so its        *)
(* handler is one step.  The service starts on a stored task.              *)
(***************************************************************************)

\* next_status up to the call of TaskDao.update_status
ConcNextStatus(p, t_id, assignee_id) ==
    LET task == TaskDao_get_by_id(tasks, t_id)
    IN  /\ conc[p].pc = "idle"
        /\ IF task = NULL
           THEN conc' = [conc EXCEPT ![p].pc = "AttributeError"]
           ELSE LET t_next_status == get_next_status(tasks[t_id].status)
                    checks == next_status_checks(users, t_next_status, assignee_id)
                IN  IF checks # "ok"
                    THEN conc' = [conc EXCEPT ![p].pc = checks]
                    ELSE conc' = [conc EXCEPT ![p] =
                                     [pc |-> "validated", t_id |-> t_id,
                                      status |-> tasks[t_id].status,
                                      t_next_status |-> t_next_status,
                                      assignee_id |-> assignee_id]]
        /\ UNCHANGED <<db, last, fn>>

\* await TaskDao.update_status(t_id, t_next_status, assignee_id), and the reply
ConcUpdateStatus(p) ==
    LET t_id == conc[p].t_id
        row == update_status(tasks[t_id], conc[p].t_next_status, conc[p].assignee_id, clock)
    IN  /\ conc[p].pc = "validated"
        /\ IF ~RowAdmitted(users, tasks, t_id, row)
           THEN /\ conc' = [conc EXCEPT ![p].pc = "IntegrityError"]
                /\ UNCHANGED <<db, last, fn>>
           ELSE /\ clock <= MaxClock
                /\ tasks' = [tasks EXCEPT ![t_id] = row]
                /\ clock' = clock + 1
                /\ conc' = [conc EXCEPT ![p].pc = "advanced"]
                /\ UNCHANGED <<users, history, task_id_seq, last, fn>>

NextAdvance ==
    \/ \E p \in Procs, t_id \in TaskIds, assignee_id \in NextStatusAssignees :
          ConcNextStatus(p, t_id, assignee_id)
    \/ \E p \in Procs : ConcUpdateStatus(p)
    \/ \E task \in STaskUpdate, t_id \in TaskIds, cur_user \in Authors :
          UpdateTask(task, t_id, cur_user)

SpecAdvance == InitSeeded /\ [][NextAdvance]_vars

(***************************************************************************)
(* GET /tasks/get_tasks.  Order expressions are written as the SQL they    *)
(* stand for; NoOrder is Python's None.  convert_filter_type looks its     *)
(* argument up in filter_mapping, whose keys are the twelve strings.       *)
(* get_tasks converts the request's filter_type and falls back to          *)
(* "id ASC"; TaskDao.get_all_tasks then converts what it is given once     *)
(* more, and order_by(None) leaves the query without ORDER BY, so the rows *)
(* come in an order the database chooses.  The response cache in front of  *)
(* the handler is outside the model.                                       *)
(***************************************************************************)
NoOrder == "None"

filter_mapping ==
    [k \in {"number_asc", "number_desc", "status_asc", "status_desc", "type_asc",
            "type_desc", "created_at_asc", "created_at_desc", "last_updated_at_asc",
            "last_updated_at_desc", "assignee_asc", "assignee_desc"} |->
        CASE k = "number_asc" -> "number ASC"
          [] k = "number_desc" -> "number DESC"
          [] k = "status_asc" -> "status ASC"
          [] k = "status_desc" -> "status DESC"
          [] k = "type_asc" -> "type ASC"
          [] k = "type_desc" -> "type DESC"
          [] k = "created_at_asc" -> "created_at ASC"
          [] k = "created_at_desc" -> "created_at DESC"
          [] k = "last_updated_at_asc" -> "last_updated_at ASC"
          [] k = "last_updated_at_desc" -> "last_updated_at DESC"
          [] k = "assignee_asc" -> "assignee_id ASC"
          [] k = "assignee_desc" -> "assignee_id DESC"]

\* utils.convert_filter_type: filter_mapping.get(filter_type)
convert_filter_type(filter_type) ==
    IF filter_type \in DOMAIN filter_mapping THEN filter_mapping[filter_type] ELSE NoOrder

\* the column and the direction of an order expression
OrderColumn(expr) ==
    CASE expr \in {"number ASC", "number DESC"} -> "number"
      [] expr \in {"status ASC", "status DESC"} -> "status"
      [] expr \in {"type ASC", "type DESC"} -> "type"
      [] expr \in {"created_at ASC", "created_at DESC"} -> "created_at"
      [] expr \in {"last_updated_at ASC", "last_updated_at DESC"} -> "last_updated_at"
      [] expr \in {"assignee_id ASC", "assignee_id DESC"} -> "assignee_id"
      [] OTHER -> "id"

OrderDescending(expr) ==
    expr \in {"number DESC", "status DESC", "type DESC", "created_at DESC",
              "last_updated_at DESC", "assignee_id DESC"}

\* the place of e in the declaration order of an enum type
EnumIndex(enum, e) == CHOOSE i \in 1..Len(enum) : enum[i] = e

(***************************************************************************)
(* The value PostgreSQL sorts row id by under a column: enum columns by    *)
(* declaration order, NULL after every value.                              *)
(***************************************************************************)
SortValue(ttable, id, col) ==
    CASE col = "number" -> ttable[id].number
      [] col = "status" -> EnumIndex(statuses, ttable[id].status)
      [] col = "type" -> EnumIndex(<<"task", "bug">>, ttable[id].type)
      [] col = "created_at" -> ttable[id].created_at
      [] col = "last_updated_at" -> ttable[id].last_updated_at
      [] col = "assignee_id" -> IF ttable[id].assignee_id = NULL THEN NoSuchUser + 1
                                ELSE ttable[id].assignee_id
      [] OTHER -> id

\* every row once, in any order
Orderings(ids) ==
    {rows \in [1..Cardinality(ids) -> ids] :
        \A i, j \in 1..Cardinality(ids) : rows[i] = rows[j] => i = j}

\* rows is in the order of column col, descending or ascending
OrderedBy(ttable, rows, col, descending) ==
    \A i, j \in 1..Len(rows) :
        i < j => IF descending
                 THEN SortValue(ttable, rows[i], col) >= SortValue(ttable, rows[j], col)
                 ELSE SortValue(ttable, rows[i], col) <= SortValue(ttable, rows[j], col)

\* the results a SELECT of all tasks may give under .order_by(expr)
select_order_by(ttable, expr) ==
    IF expr = NoOrder
    THEN Orderings(DOMAIN ttable)
    ELSE {rows \in Orderings(DOMAIN ttable) :
             OrderedBy(ttable, rows, OrderColumn(expr), OrderDescending(expr))}

\* TaskDao.get_all_tasks: the ids of the rows, in the order returned
get_all_tasks(ttable, filter_type) ==
    LET filter_method == convert_filter_type(filter_type)
    IN  select_order_by(ttable, filter_method)

\* the record of a handled read request: its parameters and the rows returned
ReadReply(op, result, params, rows) ==
    [op |-> op, result |-> result, t_id |-> NULL, cur |-> "none", status |-> "none",
     assignee_id |-> NULL, parent_id |-> NULL, actor |-> NULL,
     params |-> params, rows |-> rows]

\* get_tasks of router.py: the replies it may give
get_tasks(ttable, filter_type) ==
    LET converted == convert_filter_type(filter_type)
        filter_method == IF converted = NoOrder THEN "id ASC" ELSE converted
    IN  {ReadReply("get_tasks", "ok", filter_type, rows) :
            rows \in get_all_tasks(ttable, filter_method)}

\* filter_type of a get_tasks request: absent, the twelve keys, another string
FilterTypes == {NoOrder} \cup DOMAIN filter_mapping \cup {"id_asc"}

GetTasks(filter_type) ==
    /\ \E reply \in get_tasks(tasks, filter_type) : last' = reply
    /\ UNCHANGED <<db, fn, conc>>

(***************************************************************************)
(* GET /tasks/search_task.  Texts are compared letter by letter: Chars     *)
(* gives the letters of the strings that occur, lower folds case as ILIKE  *)
(* does.  A parameter left out is None: NoText for strings, NULL for t_id. *)
(***************************************************************************)
NoText == "None"

\* User.username of the users in place
username == <<"am", "bo", "Di", "ed", "fy">>

Chars(s) ==
    CASE s = "" -> <<>>
      [] s = "t" -> <<"t">>
      [] s = "T" -> <<"T">>
      [] s = "u" -> <<"u">>
      [] s = "d" -> <<"d">>
      [] s = "td" -> <<"t", "d">>
      [] s = "B" -> <<"B">>
      [] s = "am" -> <<"a", "m">>
      [] s = "bo" -> <<"b", "o">>
      [] s = "Di" -> <<"D", "i">>
      [] s = "ed" -> <<"e", "d">>
      [] s = "fy" -> <<"f", "y">>

lower(c) ==
    CASE c = "T" -> "t"
      [] c = "B" -> "b"
      [] c = "D" -> "d"
      [] OTHER -> c

\* value ILIKE '%text%'
ilike_case_sensitive(value, text) ==
    LET v == Chars(value)
        t == Chars(text)
    IN  \E i \in 0..(Len(v) - Len(t)) : \A j \in 1..Len(t) : v[i + j] = t[j]

ilike(value, text) ==
    LET v == Chars(value)
        t == Chars(text)
    IN  \E i \in 0..(Len(v) - Len(t)) : \A j \in 1..Len(t) : lower(v[i + j]) = lower(t[j])

(***************************************************************************)
(* TaskDao.search_task: the ids of the rows that pass every filter added,  *)
(* ordered by last_updated_at.  A filter is added when its parameter is    *)
(* truthy ("if text:", "if id:", ...).                                     *)
(***************************************************************************)
search_task(ttable, text, id, creator, assignee) ==
    LET passes(o) ==
            /\ text \notin {NoText, ""}
                  => \/ ilike(ttable[o].title, text)
                     \/ ilike(ttable[o].description, text)
            /\ id \notin {NULL, 0} => o = id
            /\ creator \notin {NoText, ""} => ilike(username[ttable[o].creator_id], creator)
            /\ assignee \notin {NoText, ""}
                  => /\ ttable[o].assignee_id # NULL
                     /\ ilike(username[ttable[o].assignee_id], assignee)
    IN  {rows \in Orderings({o \in DOMAIN ttable : passes(o)}) :
            OrderedBy(ttable, rows, "last_updated_at", FALSE)}

\* the parameters of a search_task request
SearchParams ==
    [text : {NoText, "T", "td"}, t_id : {NULL, 0, 1, 2},
     creator : {NoText, "d"}, assignee : {NoText, "", "B"}]

SearchTask(params) ==
    /\ \E rows \in search_task(tasks, params.text, params.t_id, params.creator,
                                params.assignee) :
          last' = ReadReply("search_task", "ok", params, rows)
    /\ UNCHANGED <<db, fn, conc>>

(***************************************************************************)
(* The read requests, on tables that create and next_status requests       *)
(* filled: tasks of two creators, with and without assignee.               *)
(***************************************************************************)
NextRead ==
    \/ \E task \in STaskCreate, cur_user \in Actors : CreateTask(task, cur_user)
    \/ \E t_id \in TaskIds : NextStatus(t_id, 2)
    \/ \E filter_type \in FilterTypes : GetTasks(filter_type)
    \/ \E params \in SearchParams : SearchTask(params)

SpecRead == Init /\ [][NextRead]_vars

(***************************************************************************)
(* The workflow as the specification words it (sections 4.1 and 4.2):      *)
(* the forward order, the successor of a status in it, the statuses an     *)
(* update may request, and the assignment policy.                          *)
(***************************************************************************)
Forward == <<"to_do", "in_progress", "code_review", "dev_test", "testing", "done">>

\* the status after s in the forward order; "none" for done and wontfix
Successor(s) ==
    IF \E i \in 1..(Len(Forward) - 1) : Forward[i] = s
    THEN Forward[(CHOOSE i \in 1..(Len(Forward) - 1) : Forward[i] = s) + 1]
    ELSE "none"

ValidTransitions(c) == ({"to_do", "wontfix", c} \cup {Successor(c)}) \ {"none"}

AssignmentPolicy(s, a) ==
    \/ a = None /\ s # "in_progress"
    \/ a # None /\ a.role = "team_lead"
    \/ a # None /\ a.role = "test_engineer" /\ s \notin {"in_progress", "code_review", "dev_test"}
    \/ a # None /\ a.role = "developer" /\ s # "testing"

\* the candidate assignee a request names
Named(assignee_id) == UserDao_get_by_id(users, assignee_id)

(***************************************************************************)
(* C1.  An update request on an existing task with status c that requests  *)
(* status r, with an assignee the policy admits for r, is accepted if and  *)
(* only if r is to_do, wontfix, c or the successor of c.                   *)
(***************************************************************************)
C1_UpdateAcceptedIffValidTransition ==
    (/\ last.op = "update"
     /\ last.cur # "none"
     /\ AssignmentPolicy(last.status, Named(last.assignee_id)))
    => (last.result = "ok" <=> last.status \in ValidTransitions(last.cur))

(***************************************************************************)
(* C2.  As claimed: get_next_status gives the successor in the forward     *)
(* order for every status but done and wontfix, and fails (gives no        *)
(* status) for done and for wontfix.                                       *)
(***************************************************************************)
C2_NextFailsOnDoneAndWontfix ==
    fn.next # "none" =>
        IF fn.status \in {"done", "wontfix"}
        THEN fn.next \notin TaskStatus
        ELSE fn.next = Successor(fn.status)

(***************************************************************************)
(* C2, amended.  get_next_status gives the successor in the forward order  *)
(* for every status but done and wontfix; for done it gives wontfix, and   *)
(* for wontfix it fails with IndexError.                                   *)
(***************************************************************************)
C2_NextStatus ==
    fn.next # "none" =>
        CASE fn.status = "done" -> fn.next = "wontfix"
          [] fn.status = "wontfix" -> fn.next = "IndexError"
          [] OTHER -> fn.next = Successor(fn.status)

C2_Witness == fn.status = "done" /\ fn.next = "wontfix"

(***************************************************************************)
(* C3.  is_valid_assignee is true exactly when: there is no assignee and   *)
(* the status is not in_progress; or the assignee is a team lead; or a     *)
(* test engineer and the status is none of in_progress, code_review,       *)
(* dev_test; or a developer and the status is not testing.                 *)
(***************************************************************************)
C3_IsValidAssignee ==
    fn.valid_assignee # "none" =>
        (fn.valid_assignee = "True" <=> AssignmentPolicy(fn.status, fn.assignee))

C3_Witness ==
    /\ fn.valid_assignee = "False"
    /\ fn.assignee.role = "manager"
    /\ fn.status = "to_do"

(***************************************************************************)
(* C4.  Right after a successful create or create_child request the new    *)
(* task has status to_do.                                                  *)
(***************************************************************************)
C4_CreatedTaskIsToDo ==
    (last.op \in {"create", "create_child"} /\ last.result = "ok")
    => (last.t_id \in DOMAIN tasks /\ tasks[last.t_id].status = "to_do")

C4_Witness ==
    /\ last.op = "create_child"
    /\ last.result = "ok"
    /\ tasks[last.t_id].parent_id # NULL

(***************************************************************************)
(* C5.  After a successful create (or create_child) request exactly one    *)
(* history entry of type create exists for the new task, and the status    *)
(* recorded in it is to_do.                                                *)
(***************************************************************************)
CreateEntries(t_id) ==
    {h \in 1..Len(history) : history[h].task_id = t_id /\ history[h].change_type = "create"}

C5_OneCreateEntry ==
    (last.op \in {"create", "create_child"} /\ last.result = "ok")
    => /\ Cardinality(CreateEntries(last.t_id)) = 1
       /\ \A h \in CreateEntries(last.t_id) : history[h].change_data.status = "to_do"

C5_Witness ==
    /\ last.op = "create"
    /\ last.result = "ok"
    /\ Len(history) = 2
    /\ history[2].task_id = last.t_id

(***************************************************************************)
(* C6.  Every step that changes the status of a task moves it from its     *)
(* status s to to_do, wontfix, s or the successor of s.                    *)
(***************************************************************************)
C6_StatusMovesOneStep ==
    [][\A id \in DOMAIN tasks \cap DOMAIN tasks' :
          tasks'[id].status \in ValidTransitions(tasks[id].status)]_vars

C6_Witness ==
    /\ last.op = "next_status"
    /\ last.result = "ok"
    /\ last.cur = "testing"
    /\ tasks[last.t_id].status = "done"

(***************************************************************************)
(* C7.  A successful next_status request on a task with status s leaves    *)
(* the task in the successor of s, which is never wontfix.                 *)
(***************************************************************************)
C7_AdvanceSetsSuccessor ==
    (last.op = "next_status" /\ last.result = "ok")
    => /\ last.t_id \in DOMAIN tasks
       /\ tasks[last.t_id].status = Successor(last.cur)
       /\ tasks[last.t_id].status # "wontfix"

C7_Witness ==
    /\ last.op = "next_status"
    /\ last.result = "ok"
    /\ last.cur = "to_do"
    /\ tasks[last.t_id].status = "in_progress"

(***************************************************************************)
(* C8.  A next_status request on a task whose status is done or wontfix    *)
(* fails, whatever assignee it names, and changes neither the tasks nor    *)
(* the history.                                                            *)
(***************************************************************************)
C8_NoAdvanceFromDoneOrWontfix ==
    [][(/\ last'.op = "next_status"
        /\ last'.t_id \in DOMAIN tasks
        /\ tasks[last'.t_id].status \in {"done", "wontfix"})
       => (last'.result # "ok" /\ tasks' = tasks /\ history' = history)]_vars

C8_Witness ==
    /\ last.op = "next_status"
    /\ last.cur = "wontfix"
    /\ last.result = "IndexError"
    /\ tasks[last.t_id].status = "wontfix"

(***************************************************************************)
(* C9.  An update request on an existing task whose requested status is no *)
(* valid transition from the task's status, or whose assignee the policy   *)
(* does not admit for the requested status, is rejected, and leaves the    *)
(* tasks and the history as they were.                                     *)
(***************************************************************************)
C9_InvalidUpdateRejected ==
    [][(/\ last'.op = "update"
        /\ last'.t_id \in DOMAIN tasks
        /\ \/ last'.status \notin ValidTransitions(tasks[last'.t_id].status)
           \/ ~AssignmentPolicy(last'.status, Named(last'.assignee_id)))
       => (last'.result # "ok" /\ tasks' = tasks /\ history' = history)]_vars

C9_Witness ==
    /\ last.op = "update"
    /\ last.cur = "in_progress"
    /\ last.status = "testing"
    /\ last.assignee_id = 3
    /\ last.result # "ok"

(***************************************************************************)
(* C10.  A create or create_child request whose assignee the policy does   *)
(* not admit for to_do, and a next_status request whose assignee it does   *)
(* not admit for the successor of the task's status, is rejected and       *)
(* leaves the tasks and the history as they were.                          *)
(***************************************************************************)
C10_InvalidAssigneeWritesNothing ==
    [][(\/ /\ last'.op \in {"create", "create_child"}
           /\ ~AssignmentPolicy("to_do", Named(last'.assignee_id))
        \/ /\ last'.op = "next_status"
           /\ last'.t_id \in DOMAIN tasks
           /\ Successor(tasks[last'.t_id].status) # "none"
           /\ ~AssignmentPolicy(Successor(tasks[last'.t_id].status), Named(last'.assignee_id)))
       => (last'.result # "ok" /\ tasks' = tasks /\ history' = history)]_vars

C10_Witness ==
    /\ last.op = "next_status"
    /\ last.result = "bad_request"
    /\ last.cur = "dev_test"
    /\ last.assignee_id = 3
    /\ tasks[last.t_id].status = "dev_test"

(***************************************************************************)
(* C11.  From every status, done and wontfix included, an update request   *)
(* on an existing task that requests to_do or wontfix, with an assignee    *)
(* the policy admits for the requested status, is accepted and the task    *)
(* ends in the requested status.                                           *)
(***************************************************************************)
C11_ResetAndWontfixFromEveryStatus ==
    (/\ last.op = "update"
     /\ last.cur # "none"
     /\ last.status \in {"to_do", "wontfix"}
     /\ AssignmentPolicy(last.status, Named(last.assignee_id)))
    => (/\ last.result = "ok"
        /\ last.t_id \in DOMAIN tasks
        /\ tasks[last.t_id].status = last.status)

\* the request repeats every field of the stored row (assignee_id 0 is "no assignee")
Identical(row, task) ==
    /\ row.number = task.number
    /\ row.type = task.type
    /\ row.priority = task.priority
    /\ row.status = task.status
    /\ row.title = task.title
    /\ row.description = task.description
    /\ row.assignee_id = IF task.assignee_id = 0 THEN NULL ELSE task.assignee_id

\* the row is as its creation left it
Fresh(row) == row.status = "to_do" /\ row.last_updated_at = row.created_at

(***************************************************************************)
(* C12.  An update request on a freshly created task that repeats the      *)
(* task's field values, current status included, succeeds, leaves the      *)
(* task's status as it was, and adds exactly one history entry, of type    *)
(* update, for that task.                                                  *)
(***************************************************************************)
C12_IdenticalUpdateSucceeds ==
    [][\A task \in STaskUpdate, t_id \in TaskIds, cur_user \in Authors :
          (/\ UpdateTask(task, t_id, cur_user)
           /\ t_id \in DOMAIN tasks
           /\ Fresh(tasks[t_id])
           /\ Identical(tasks[t_id], task))
          => (/\ last'.result = "ok"
              /\ tasks'[t_id].status = tasks[t_id].status
              /\ Len(history') = Len(history) + 1
              /\ SubSeq(history', 1, Len(history)) = history
              /\ history'[Len(history')].task_id = t_id
              /\ history'[Len(history')].change_type = "update")]_vars

\* the requests that change a task
Mutations == {"create", "create_child", "update", "next_status"}

(***************************************************************************)
(* C13.  Every successful create, create_child, update and next_status     *)
(* request adds exactly one history entry, so the number of history        *)
(* entries grows by one with every successful mutation.                    *)
(***************************************************************************)
C13_OneEntryPerMutation ==
    [][(last'.op \in Mutations /\ last'.result = "ok")
       => (/\ Len(history') = Len(history) + 1
           /\ SubSeq(history', 1, Len(history)) = history)]_vars

(***************************************************************************)
(* C14.  The history is append-only: whatever request is handled (create,  *)
(* create_child, update, next_status, delete), every entry written before  *)
(* it is still there afterwards, at its place and with all its fields.     *)
(***************************************************************************)
C14_HistoryAppendOnly ==
    [][/\ Len(history') >= Len(history)
       /\ SubSeq(history', 1, Len(history)) = history]_vars

\* a manager's delete request on a task with a history entry, after a second entry
C14_Witness ==
    /\ last.op = "delete"
    /\ users[last.actor].role = "manager"
    /\ Len(history) = 2
    /\ \E h \in 1..Len(history) : history[h].task_id = last.t_id

(***************************************************************************)
(* C15.  A manager's delete request on an existing task succeeds and       *)
(* removes that task and nothing else: the other tasks and the whole       *)
(* history stay, and get_task_history still returns the entries recorded   *)
(* for the deleted task's id.                                              *)
(***************************************************************************)
C15_DeleteKeepsHistory ==
    [][(/\ last'.op = "delete"
        /\ users[last'.actor].role = "manager"
        /\ last'.t_id \in DOMAIN tasks)
       => (/\ last'.result = "ok"
           /\ tasks' = [o \in DOMAIN tasks \ {last'.t_id} |-> tasks[o]]
           /\ history' = history
           /\ get_task_history(history', last'.t_id)
                 = get_task_history(history, last'.t_id))]_vars

(***************************************************************************)
(* C16.  A delete request of an actor whose role is not manager is         *)
(* rejected as forbidden and leaves the tasks as they were; and whenever a *)
(* task disappears, the request handled was a delete by a manager.         *)
(***************************************************************************)
C16_DeleteOnlyByManager ==
    [][/\ (last'.op = "delete" /\ users[last'.actor].role # "manager")
             => (last'.result = "forbidden" /\ tasks' = tasks)
       /\ (\E o \in DOMAIN tasks : o \notin DOMAIN tasks')
             => (/\ last'.op = "delete"
                 /\ last'.result = "ok"
                 /\ users[last'.actor].role = "manager"
                 /\ DOMAIN tasks' = DOMAIN tasks \ {last'.t_id})]_vars

\* the developer asked to delete a stored task nothing refers to
C16_Witness ==
    /\ last.op = "delete"
    /\ users[last.actor].role = "developer"
    /\ last.result = "forbidden"
    /\ last.t_id \in DOMAIN tasks
    /\ ~Referenced(tasks, history, last.t_id)

(***************************************************************************)
(* C17.  When two create requests run concurrently, each a task write      *)
(* followed by a separate most-recently-updated lookup and history write,  *)
(* a request's history entry goes to the task that was updated last when   *)
(* the request looked it up: the task the request wrote, or one written    *)
(* after it.  An interleaving in which it is not the task the request      *)
(* wrote exists (C17_Witness).                                             *)
(***************************************************************************)
C17_EntryGoesToLatestTask ==
    \A p \in Procs :
        /\ conc[p].pc \in {"found", "done"}
              => /\ conc[p].task_created \in DOMAIN tasks
                 /\ tasks[conc[p].task_created].last_updated_at
                       >= tasks[conc[p].wrote].last_updated_at
        /\ conc[p].pc = "done"
              => /\ conc[p].entry \in 1..Len(history)
                 /\ history[conc[p].entry].task_id = conc[p].task_created
                 /\ history[conc[p].entry].change_data.number
                       = tasks[conc[p].wrote].number

\* a request's entry, carrying the data of the task it wrote, names another task
C17_Witness ==
    \E p \in Procs :
        /\ conc[p].pc = "done"
        /\ history[conc[p].entry].task_id # conc[p].wrote
        /\ history[conc[p].entry].change_data.number = tasks[conc[p].wrote].number

(***************************************************************************)
(* C18.  In every reachable state, whatever create, create_child, update,  *)
(* next_status and delete requests were handled, every task that has a     *)
(* parent reference refers to a task that exists.                          *)
(***************************************************************************)
C18_ParentExists ==
    \A o \in DOMAIN tasks : tasks[o].parent_id # NULL => tasks[o].parent_id \in DOMAIN tasks

\* a manager's delete request on a task that only its child refers to
C18_Witness ==
    /\ last.op = "delete"
    /\ users[last.actor].role = "manager"
    /\ last.t_id \in DOMAIN tasks
    /\ ~Referenced_by_history(tasks, history, last.t_id)
    /\ \E o \in DOMAIN tasks : tasks[o].parent_id = last.t_id

C20_MissingTaskNotFound ==
    [][(last'.op \in {"update", "next_status"} /\ last'.t_id \notin DOMAIN tasks)
       => (last'.result = "not_found" /\ tasks' = tasks /\ history' = history)]_vars

\* the request names an assignee, and no user has that id
UnknownAssignee(assignee_id) == assignee_id \notin {NULL, 0} /\ assignee_id \notin DOMAIN users

(***************************************************************************)
(* C21.  A create, update or next_status request that names an assignee id *)
(* no user has ends in a not-found failure and writes nothing; so no task  *)
(* ever stores an assignee id that no user has.                            *)
(***************************************************************************)
C21_UnknownAssigneeNotFound ==
    [][/\ (last'.op \in {"create", "update", "next_status"} /\ UnknownAssignee(last'.assignee_id))
             => (last'.result = "not_found" /\ tasks' = tasks /\ history' = history)
       /\ \A o \in DOMAIN tasks' :
             tasks'[o].assignee_id = NULL \/ tasks'[o].assignee_id \in DOMAIN users']_vars

\* the twelve recognised sort keys, and the field and direction each names
SortKeys ==
    {f \o d : f \in {"number", "status", "type", "created_at", "last_updated_at", "assignee"},
              d \in {"_asc", "_desc"}}

\* rows holds every existing task exactly once
EveryTaskOnce(rows) ==
    /\ Len(rows) = Cardinality(DOMAIN tasks)
    /\ \A o \in DOMAIN tasks : \E i \in 1..Len(rows) : rows[i] = o

(***************************************************************************)
(* C22.  A list request that gives a sort key which is none of the twelve  *)
(* keys fails with a bad-request error and returns no task list.           *)
(***************************************************************************)
C22_UnknownKeyRejected ==
    (last.op = "get_tasks" /\ last.params # NoOrder /\ last.params \notin SortKeys)
    => (last.result = "bad_request" /\ last.rows = <<>>)

\* the field a recognised sort key names, as the tasks table's column
KeyColumn(key) ==
    CASE key \in {"number_asc", "number_desc"} -> "number"
      [] key \in {"status_asc", "status_desc"} -> "status"
      [] key \in {"type_asc", "type_desc"} -> "type"
      [] key \in {"created_at_asc", "created_at_desc"} -> "created_at"
      [] key \in {"last_updated_at_asc", "last_updated_at_desc"} -> "last_updated_at"
      [] key \in {"assignee_asc", "assignee_desc"} -> "assignee_id"

KeyDescending(key) ==
    key \in {f \o "_desc" : f \in {"number", "status", "type", "created_at",
                                   "last_updated_at", "assignee"}}

(***************************************************************************)
(* C23.  For each of the twelve recognised sort keys, a list request       *)
(* returns every existing task exactly once, ordered by the key's field in *)
(* the key's direction.                                                    *)
(***************************************************************************)
C23_ListOrderedByKey ==
    (last.op = "get_tasks" /\ last.params \in SortKeys)
    => /\ last.result = "ok"
       /\ EveryTaskOnce(last.rows)
       /\ OrderedBy(tasks, last.rows, KeyColumn(last.params), KeyDescending(last.params))

\* text occurs in value, letter case ignored
Contains(value, text) ==
    LET v == [i \in DOMAIN Chars(value) |-> lower(Chars(value)[i])]
        t == [i \in DOMAIN Chars(text) |-> lower(Chars(text)[i])]
    IN  \E i \in 0..(Len(v) - Len(t)) : SubSeq(v, i + 1, i + Len(t)) = t

(***************************************************************************)
(* The tasks a search for params asks for, when the texts in blank and the *)
(* ids in blank_id count as "not supplied": those that satisfy every       *)
(* other filter.                                                           *)
(***************************************************************************)
Wanted(params, blank, blank_id) ==
    {o \in DOMAIN tasks :
        /\ params.text \notin blank
              => Contains(tasks[o].title, params.text)
                 \/ Contains(tasks[o].description, params.text)
        /\ params.t_id \notin blank_id => o = params.t_id
        /\ params.creator \notin blank
              => Contains(username[tasks[o].creator_id], params.creator)
        /\ params.assignee \notin blank
              => /\ tasks[o].assignee_id # NULL
                 /\ Contains(username[tasks[o].assignee_id], params.assignee)}

\* rows holds exactly the tasks of the set wanted, each once, oldest update first
ExactlyAscending(rows, wanted) ==
    /\ Len(rows) = Cardinality(wanted)
    /\ \A o \in wanted : \E i \in 1..Len(rows) : rows[i] = o
    /\ \A i, j \in 1..Len(rows) :
          i < j => tasks[rows[i]].last_updated_at <= tasks[rows[j]].last_updated_at

(***************************************************************************)
(* C24.  As claimed: search returns exactly the tasks that satisfy every   *)
(* filter the request supplies (text, id, creator username, assignee       *)
(* username), in ascending last_updated_at order, and all tasks when it    *)
(* supplies none.                                                          *)
(***************************************************************************)
C24_SearchEverySuppliedFilter ==
    last.op = "search_task"
    => ExactlyAscending(last.rows, Wanted(last.params, {NoText}, {NULL}))

(***************************************************************************)
(* C24, amended.  The same, where a filter given as the empty string or    *)
(* as id 0 counts as not supplied.                                         *)
(***************************************************************************)
C24_SearchEveryNonEmptyFilter ==
    last.op = "search_task"
    => ExactlyAscending(last.rows, Wanted(last.params, {NoText, ""}, {NULL, 0}))

\* two tasks, and a search by text, creator and assignee that finds one of them
C24_Witness ==
    /\ last.op = "search_task"
    /\ last.params.text = "T"
    /\ last.params.creator = "d"
    /\ last.params.assignee = "B"
    /\ Cardinality(DOMAIN tasks) = 2
    /\ Len(last.rows) = 1

(***************************************************************************)
(* C25.  When requests are handled one after the other, the history entry  *)
(* a successful create, create_child or update request writes carries the  *)
(* id of the task that request has just written.                           *)
(***************************************************************************)
C25_EntryNamesWrittenTask ==
    [][(last'.op \in {"create", "create_child", "update"} /\ last'.result = "ok")
       => (/\ Len(history') = Len(history) + 1
           /\ history'[Len(history')].task_id = last'.t_id)]_vars

\* task 2 is created after task 1 was advanced, and its entry names task 2
C25_Witness ==
    /\ last.op \in {"create", "create_child"}
    /\ last.result = "ok"
    /\ last.t_id = 2
    /\ tasks[1].status = "in_progress"
    /\ history[Len(history)].task_id = 2

(***************************************************************************)
(* C26.  In every reachable state, whatever task requests and role change  *)
(* requests were handled, every task's stored status and stored assignee   *)
(* satisfy the assignment policy; so a task in status in_progress always   *)
(* has an assignee.                                                        *)
(***************************************************************************)
C26_StoredAssigneeSatisfiesPolicy ==
    \A o \in DOMAIN tasks :
        /\ AssignmentPolicy(tasks[o].status, Named(tasks[o].assignee_id))
        /\ tasks[o].status = "in_progress" => tasks[o].assignee_id # NULL

\* a manager asked to make the developer a test engineer while the developer
\* holds a task in in_progress, where the policy admits no test engineer
C26_Witness ==
    /\ last.op = "change_role"
    /\ users[last.actor].role = "manager"
    /\ last.status = "test_engineer"
    /\ \E o \in DOMAIN tasks :
          tasks[o].status = "in_progress" /\ tasks[o].assignee_id = last.assignee_id

\* both requests advanced the same task
BothAdvanced ==
    /\ \A p \in Procs : conc[p].pc = "advanced"
    /\ \A p, q \in Procs : conc[p].t_id = conc[q].t_id

\* how many steps the task the requests advanced is ahead of the status the
\* first of them read
StepsForward ==
    LET t_id == conc[CHOOSE p \in Procs : TRUE].t_id
        at(s) == CHOOSE i \in 1..Len(Forward) : Forward[i] = s
        first == CHOOSE i \in {at(conc[p].status) : p \in Procs} :
                     \A p \in Procs : i <= at(conc[p].status)
    IN  at(tasks[t_id].status) - first

\* every status write goes to to_do, wontfix, the stored status or its successor
WritesFollowWorkflow ==
    \A o \in DOMAIN tasks :
        tasks'[o].status \in ({"to_do", "wontfix", tasks[o].status}
                                 \cup {Successor(tasks[o].status)})

(***************************************************************************)
(* C27.  As claimed: when two requests that change one task's status       *)
(* interleave between reading the task and writing it, every committed     *)
(* write moves the task from the status stored just before it to to_do,    *)
(* wontfix, the same status or the next one, and when both advances        *)
(* succeed the task is as many steps forward as advances succeeded: two.   *)
(***************************************************************************)
C27_AdvancesCountSteps ==
    [][WritesFollowWorkflow /\ (BothAdvanced' => StepsForward' = Cardinality(Procs))]_vars

(***************************************************************************)
(* C27, amended.  Every committed write moves the task from the status     *)
(* stored just before it to to_do, wontfix, the same status or the next    *)
(* one; but two advances that both succeed may have read the same status,  *)
(* and then the second write repeats the first: the task is one or two     *)
(* steps forward, not always two.                                          *)
(***************************************************************************)
C27_AdvancesMayCoincide ==
    [][WritesFollowWorkflow /\ (BothAdvanced' => StepsForward' \in 1..Cardinality(Procs))]_vars

\* both advances succeeded on what they read, and the task moved one step
C27_Witness ==
    /\ BothAdvanced
    /\ \A p \in Procs : conc[p].status = "to_do"
    /\ tasks[1].status = "in_progress"
    /\ StepsForward = 1

(***************************************************************************)
(* C28.  A successful next_status request changes only the task's status,  *)
(* assignee and last_updated_at: its number, type, priority, title,        *)
(* description, creator, parent and created_at stay, as does every other   *)
(* task; and its assignee becomes the one the request names, none when the *)
(* request names none (assignee_id 0).                                     *)
(***************************************************************************)
C28_AdvanceFrame ==
    [][(last'.op = "next_status" /\ last'.result = "ok")
       => LET t_id == last'.t_id
          IN  /\ tasks' = [tasks EXCEPT ![t_id].status = tasks'[t_id].status,
                                        ![t_id].assignee_id = tasks'[t_id].assignee_id,
                                        ![t_id].last_updated_at = tasks'[t_id].last_updated_at]
              /\ tasks'[t_id].assignee_id
                    = IF last'.assignee_id = 0 THEN NULL ELSE last'.assignee_id]_vars

\* a task held by the team lead in in_progress is advanced without an assignee
C28_Witness ==
    /\ last.op = "next_status"
    /\ last.result = "ok"
    /\ last.assignee_id = 0
    /\ last.cur = "in_progress"
    /\ tasks[last.t_id].status = "code_review"
    /\ tasks[last.t_id].assignee_id = NULL

\* the place of status s in the forward order: 1 for to_do, 6 for done
Place(s) == CHOOSE i \in 1..Len(Forward) : Forward[i] = s

\* committed writes tick the clock, and the first one created the task: the
\* number of next_status requests that succeeded on a table's only task
Advances(now) == now - 2

(***************************************************************************)
(* C29.  A next_status request that names a team lead succeeds on a task   *)
(* in any status before done and moves it to the next status, and is       *)
(* rejected, changing nothing, on a task in done.  So a task created in    *)
(* to_do and advanced with nothing else touching it is as many places      *)
(* forward as advances succeeded: it is in done after exactly five, and no *)
(* further advance succeeds.                                               *)
(***************************************************************************)
C29_FiveAdvancesToDone ==
    [][/\ (/\ last'.op = "next_status"
           /\ last'.t_id \in DOMAIN tasks
           /\ tasks[last'.t_id].status # "wontfix"
           /\ Named(last'.assignee_id).role = "team_lead")
          => IF tasks[last'.t_id].status # "done"
             THEN /\ last'.result = "ok"
                  /\ Place(tasks'[last'.t_id].status) = Place(tasks[last'.t_id].status) + 1
             ELSE last'.result # "ok" /\ tasks' = tasks
       /\ DOMAIN tasks' = {1}
          => /\ Place(tasks'[1].status) = 1 + Advances(clock')
             /\ tasks'[1].status = "done" <=> Advances(clock') = 5]_vars

\* the only task is in done after five advances, and a sixth was rejected
C29_Witness ==
    /\ DOMAIN tasks = {1}
    /\ tasks[1].status = "done"
    /\ Advances(clock) = 5
    /\ last.op = "next_status"
    /\ last.assignee_id = 2
    /\ last.cur = "done"
    /\ last.result = "bad_request"

====
